---- MODULE Spec2Model ----
(***************************************************************************)
(* Budget Buddy: the Flask request handlers of budget_buddy_project.py and *)
(* the two MongoDB collections ("expenses", "settings") they read and      *)
(* write.                                                                  *)
(*                                                                         *)
(* Money on the wire is a floating-point number of major units.  It is     *)
(* modelled as an integer count of thousandths (1 = 0.001) so that amounts *)
(* with three decimals, and amounts below half a cent, are representable;  *)
(* stored amounts are integer cents.  Strings are sequences of tokens: the *)
(* token " " is a whitespace character, every other token is a run of      *)
(* non-whitespace characters.                                              *)
(***************************************************************************)
EXTENDS Integers, Sequences, FiniteSets, Bags, TLC

\* Bounds of the model.
MaxExpenses == 2      \* expense ids handed out by insert_one
MaxInFlight == 2      \* save_settings requests inside update_one at once
MaxDocs == 3          \* documents stored or about to be inserted

\* ------------------------------------------------------------------------
\* JSON values of a request body field and Python floats
\* ------------------------------------------------------------------------
Missing == [k |-> "missing", n |-> 0, s |-> <<>>]
Null    == [k |-> "null",    n |-> 0, s |-> <<>>]
NaN     == [k |-> "nan",     n |-> 0, s |-> <<>>]
Inf     == [k |-> "inf",     n |-> 0, s |-> <<>>]
Num(n)  == [k |-> "num",     n |-> n, s |-> <<>>]
Str(s)  == [k |-> "str",     n |-> 0, s |-> s]

\* request.headers.get("X-User-Id"): None when the header is absent.
NoHeader == "None"
Users == {"u1", "u2"}
Headers == {NoHeader, ""} \cup Users

\* Numeric literals that float() accepts, with their value.
Numerals == {"4.5", "10", "nan"}
NumeralValue(t) ==
    CASE t = "4.5" -> Num(4500)
      [] t = "10"  -> Num(10000)
      [] t = "nan" -> NaN

RECURSIVE LStrip(_)
LStrip(s) == IF s # <<>> /\ Head(s) = " " THEN LStrip(Tail(s)) ELSE s

RECURSIVE RStrip(_)
RStrip(s) ==
    IF s # <<>> /\ s[Len(s)] = " " THEN RStrip(SubSeq(s, 1, Len(s) - 1)) ELSE s

\* str.strip()
Strip(s) == RStrip(LStrip(s))

\* bool(v), as used by "v or default"
Truthy(v) ==
    CASE v.k \in {"missing", "null"} -> FALSE
      [] v.k = "num" -> v.n # 0
      [] v.k \in {"nan", "inf"} -> TRUE
      [] v.k = "str" -> v.s # <<>>

\* data.get(key, 0)
DataGetZero(v) == IF v.k = "missing" THEN Num(0) ELSE v

\* (v or default).strip(): AttributeError when the operand is not a string
OrStrip(v, default) ==
    LET x == IF Truthy(v) THEN v ELSE Str(default)
    IN  IF x.k = "str" THEN [ok |-> TRUE, s |-> Strip(x.s)]
                       ELSE [ok |-> FALSE, s |-> <<>>]

\* float(v): TypeError for None, ValueError for a string that is no number
PyFloat(v) ==
    CASE v.k \in {"missing", "null"} -> [ok |-> FALSE, f |-> Num(0)]
      [] v.k \in {"num", "nan", "inf"} -> [ok |-> TRUE, f |-> v]
      [] v.k = "str" ->
           LET t == Strip(v.s)
           IN  IF Len(t) = 1 /\ t[1] \in Numerals
               THEN [ok |-> TRUE, f |-> NumeralValue(t[1])]
               ELSE [ok |-> FALSE, f |-> Num(0)]

\* round(x * 100) for a finite x given in thousandths: nearest cent, a tie
\* goes to the even cent.  For the amounts used here (0.004, 0.01, 4.5, 10,
\* 2500) the double product x * 100 rounds to the same cent.
RoundCents(n) ==
    LET q == n \div 10
        r == n % 10
    IN  IF r < 5 THEN q
        ELSE IF r > 5 THEN q + 1
        ELSE IF q % 2 = 0 THEN q ELSE q + 1

\* int(round(x * 100)): ValueError for NaN, OverflowError for infinity
ToCents(f) ==
    IF f.k = "num" THEN [ok |-> TRUE, c |-> RoundCents(f.n)]
                   ELSE [ok |-> FALSE, c |-> 0]

\* A view that returns the stored cents as the amount.
ToMajorUnscaled(c) == c * 1000

\* cents / 100.0, in thousandths
ToMajor(c) == c * 10

\* str(ObjectId) and the <expense_id> path segment
OidStr(n) == [wf |-> TRUE, oid |-> n]
BadId == [wf |-> FALSE, oid |-> 0]

\* ------------------------------------------------------------------------
\* Responses
\* ------------------------------------------------------------------------
Resp(status, kind, val) == [status |-> status, kind |-> kind, val |-> val]
NoResp == Resp(0, "none", <<>>)
Fault == Resp(500, "unhandled", <<>>)
ErrMissingUser == Resp(401, "Missing X-User-Id header", <<>>)
ErrInvalidId == Resp(400, "Invalid id", <<>>)
ErrInvalidAmount == Resp(400, "Invalid amount", <<>>)
ErrInvalidInput == Resp(400, "Description required and amount must be > 0", <<>>)
ErrInvalidSettings == Resp(400, "Invalid settings values", <<>>)
ErrNotFound == Resp(404, "Not found", <<>>)

\* A check that only catches the absent header, not the empty one.
MissingUserNoneOnly(h) == h = NoHeader

\* require_user_id: the error half of its result
MissingUser(h) == h = NoHeader \/ h = ""

\* parse_object_id: the error half of its result
MalformedId(id) == ~id.wf

\* ------------------------------------------------------------------------
\* Request inputs
\* ------------------------------------------------------------------------
Body(c, d, a, p, sp) ==
    [category |-> c, description |-> d, amount |-> a,
     paycheck |-> p, savingsPercent |-> sp]
EmptyBody == Body(Missing, Missing, Missing, Missing, Missing)

\* {"category": "Food", "description": "a", "amount": 4.5}
BaseExpense == Body(Str(<<"Food">>), Str(<<"a">>), Num(4500), Missing, Missing)
\* {"paycheck": 2500, "savingsPercent": 10}
BaseSettings == Body(Missing, Missing, Missing, Num(2500000), Num(10000))

Categories ==
    {Missing, Null, Str(<<>>), Str(<<" ">>), Str(<<" ", "Food", " ">>), Num(5)}
Descriptions == {Missing, Str(<<" ">>), Str(<<" ", "a", " ">>), Num(5)}
Amounts ==
    {Missing, Num(0), Num(4), Num(10), NaN, Inf, Str(<<"4.5">>), Str(<<"abc">>)}
Paychecks == {Null, Num(4), NaN, Str(<<"abc">>)}
Percents == {Str(<<"10">>), Str(<<"abc">>)}

\* POST /api/expenses bodies: the base body with at most one field replaced.
AddBodies ==
    {[BaseExpense EXCEPT !.category = c] : c \in Categories}
    \cup {[BaseExpense EXCEPT !.description = d] : d \in Descriptions}
    \cup {[BaseExpense EXCEPT !.amount = a] : a \in Amounts}
    \cup {BaseExpense}

\* POST /api/settings bodies, built the same way, and the empty body.
SettingsBodies ==
    {[BaseSettings EXCEPT !.paycheck = p] : p \in Paychecks}
    \cup {[BaseSettings EXCEPT !.savingsPercent = sp] : sp \in Percents}
    \cup {BaseSettings, EmptyBody}

\* <expense_id> path segments: every id the store can hand out, one it never
\* hands out, and a malformed one.
PathIds == {OidStr(n) : n \in 1..(MaxExpenses + 1)} \cup {BadId}

\* Requests without an identity carry a valid body, an invalid one and one
\* that would make the handler fail.
AnonHeaders == {NoHeader, ""}
AddRequests ==
    (Users \X AddBodies)
    \cup (AnonHeaders \X {BaseExpense, EmptyBody, [BaseExpense EXCEPT !.amount = NaN]})
DeleteRequests == (Users \X PathIds) \cup (AnonHeaders \X {OidStr(1), BadId})
SaveRequests ==
    (Users \X SettingsBodies)
    \cup (AnonHeaders \X {BaseSettings, EmptyBody, [BaseSettings EXCEPT !.paycheck = NaN]})

\* The requests of the specification that runs all six endpoints together.
CoreAddRequests ==
    (Users \X {BaseExpense})
    \cup (AnonHeaders \X {BaseExpense, [BaseExpense EXCEPT !.amount = NaN]})
CoreSaveRequests ==
    (Users \X {BaseSettings, EmptyBody})
    \cup (AnonHeaders \X {BaseSettings, [BaseSettings EXCEPT !.paycheck = NaN]})

Req(op, h, body, id) == [op |-> op, user |-> h, body |-> body, id |-> id]
NoReq == Req("none", NoHeader, EmptyBody, BadId)

\* ------------------------------------------------------------------------
\* State
\* ------------------------------------------------------------------------
VARIABLES
    expenses,   \* expenses_col, in natural (insertion) order
    settings,   \* settings_col, in natural (insertion) order
    nextId,     \* the next ObjectId insert_one generates
    now,        \* datetime.utcnow()
    pending,    \* save_settings requests whose upsert matched no document
    lastReq,    \* the request handled by the last step
    resp        \* its response

vars == <<expenses, settings, nextId, now, pending, lastReq, resp>>

Init ==
    /\ expenses = <<>>
    /\ settings = <<>>
    /\ nextId = 1
    /\ now = 0
    /\ pending = EmptyBag
    /\ lastReq = NoReq
    /\ resp = NoResp

\* ------------------------------------------------------------------------
\* Store operations
\* ------------------------------------------------------------------------
\* col.find({"userId": u}) / {"$match": {"userId": u}}
MatchUser(col, u) == SelectSeq(col, LAMBDA d : d.userId = u)

RECURSIVE InsertByCreatedAt(_, _)
InsertByCreatedAt(d, s) ==
    IF s = <<>> THEN <<d>>
    ELSE IF Head(s).createdAt >= d.createdAt
         THEN <<Head(s)>> \o InsertByCreatedAt(d, Tail(s))
         ELSE <<d>> \o s

\* .sort("createdAt", -1)
RECURSIVE SortCreatedAtDesc(_)
SortCreatedAtDesc(s) ==
    IF s = <<>> THEN <<>>
    ELSE InsertByCreatedAt(Head(s), SortCreatedAtDesc(Tail(s)))

\* The view-model of one expense document.
ExpenseView(d) ==
    [id |-> OidStr(d.id), category |-> d.category,
     description |-> d.description, amount |-> ToMajor(d.amountCents),
     createdAt |-> d.createdAt]

\* The array get_expenses returns for user u.
ListView(col, u) ==
    LET docs == SortCreatedAtDesc(MatchUser(col, u))
    IN  [i \in 1..Len(docs) |-> ExpenseView(docs[i])]

\* A delete filtered by _id alone.
RECURSIVE DeleteOneByIdOnly(_, _, _)
DeleteOneByIdOnly(col, oid, u) ==
    IF col = <<>> THEN <<>>
    ELSE IF Head(col).id = oid THEN Tail(col)
    ELSE <<Head(col)>> \o DeleteOneByIdOnly(Tail(col), oid, u)

\* delete_one(filter): removes the first document the filter matches.
RECURSIVE DeleteOne(_, _, _)
DeleteOne(col, oid, u) ==
    IF col = <<>> THEN <<>>
    ELSE IF Head(col).id = oid /\ Head(col).userId = u THEN Tail(col)
    ELSE <<Head(col)>> \o DeleteOne(Tail(col), oid, u)

\* An accumulator that keeps the last amount of a category, not the sum.
RECURSIVE AccumulateLast(_, _)
AccumulateLast(groups, d) ==
    IF groups = <<>> THEN <<[category |-> d.category, totalCents |-> d.amountCents]>>
    ELSE IF Head(groups).category = d.category
         THEN <<[Head(groups) EXCEPT !.totalCents = d.amountCents]>> \o Tail(groups)
         ELSE <<Head(groups)>> \o AccumulateLast(Tail(groups), d)

\* {"$group": {"_id": "$category", "totalCents": {"$sum": "$amountCents"}}}:
\* one accumulator per category, in order of first occurrence.
RECURSIVE Accumulate(_, _)
Accumulate(groups, d) ==
    IF groups = <<>> THEN <<[category |-> d.category, totalCents |-> d.amountCents]>>
    ELSE IF Head(groups).category = d.category
         THEN <<[Head(groups) EXCEPT !.totalCents = @ + d.amountCents]>> \o Tail(groups)
         ELSE <<Head(groups)>> \o Accumulate(Tail(groups), d)

RECURSIVE Group(_)
Group(docs) ==
    IF docs = <<>> THEN <<>>
    ELSE Accumulate(Group(SubSeq(docs, 1, Len(docs) - 1)), docs[Len(docs)])

RECURSIVE InsertByTotal(_, _)
InsertByTotal(g, s) ==
    IF s = <<>> THEN <<g>>
    ELSE IF Head(s).totalCents >= g.totalCents
         THEN <<Head(s)>> \o InsertByTotal(g, Tail(s))
         ELSE <<g>> \o s

\* {"$sort": {"totalCents": -1}}
RECURSIVE SortTotalDesc(_)
SortTotalDesc(s) ==
    IF s = <<>> THEN <<>>
    ELSE InsertByTotal(Head(s), SortTotalDesc(Tail(s)))

\* The array expenses_summary returns for user u.
SummaryView(col, u) ==
    LET agg == SortTotalDesc(Group(MatchUser(col, u)))
    IN  [i \in 1..Len(agg) |->
            [category |-> agg[i].category, total |-> ToMajor(agg[i].totalCents)]]

\* An update whose filter matches every document.
UpdateOneAnyUser(col, u, set) ==
    IF col = <<>> THEN <<>>
    ELSE <<[Head(col) EXCEPT !.paycheckCents = set.paycheckCents,
                             !.savingsPercent = set.savingsPercent]>> \o Tail(col)

\* update_one({"userId": u}, {"$set": ...}) on a matching document: the first
\* document the filter matches is updated in place.
RECURSIVE UpdateOne(_, _, _)
UpdateOne(col, u, set) ==
    IF col = <<>> THEN <<>>
    ELSE IF Head(col).userId = u
         THEN <<[Head(col) EXCEPT !.paycheckCents = set.paycheckCents,
                                  !.savingsPercent = set.savingsPercent]>> \o Tail(col)
         ELSE <<Head(col)>> \o UpdateOne(Tail(col), u, set)

\* find_one({"userId": u}): the first matching document, if any
HasSettings(col, u) == MatchUser(col, u) # <<>>
FindOne(col, u) == Head(MatchUser(col, u))

\* The object get_settings returns for user u.
SettingsView(col, u) ==
    IF ~HasSettings(col, u)
    THEN [paycheck |-> 0, savingsPercent |-> Num(0)]
    ELSE [paycheck |-> ToMajor(FindOne(col, u).paycheckCents),
          savingsPercent |-> FindOne(col, u).savingsPercent]

\* Documents in the two collections and on their way into them.
StoreSize == Len(expenses) + Len(settings) + BagCardinality(pending)

\* ------------------------------------------------------------------------
\* Handlers
\* ------------------------------------------------------------------------
\* GET /api/expenses
GetExpenses(h) ==
    /\ lastReq' = Req("listExpenses", h, EmptyBody, BadId)
    /\ resp' = IF MissingUser(h) THEN ErrMissingUser
               ELSE Resp(200, "expenses", ListView(expenses, h))
    /\ UNCHANGED <<expenses, settings, nextId, now, pending>>

\* add_expense up to the insert: the error response, or the document to insert
AddOutcome(h, b) ==
    LET category == OrStrip(b.category, <<"Other">>)
        description == OrStrip(b.description, <<>>)
        amount == PyFloat(b.amount)
        cents == ToCents(amount.f)
        none == [err |-> TRUE, resp |-> Fault, doc |-> <<>>]
    IN  IF MissingUser(h) THEN [none EXCEPT !.resp = ErrMissingUser]
        ELSE IF ~category.ok THEN none
        ELSE IF ~description.ok THEN none
        ELSE IF ~amount.ok THEN [none EXCEPT !.resp = ErrInvalidAmount]
        ELSE IF description.s = <<>> \/ (amount.f.k = "num" /\ amount.f.n <= 0)
             THEN [none EXCEPT !.resp = ErrInvalidInput]
        ELSE IF ~cents.ok THEN none
        ELSE [err |-> FALSE,
              resp |-> Resp(201, "id", <<OidStr(nextId)>>),
              doc |-> <<[id |-> nextId, userId |-> h, category |-> category.s,
                         description |-> description.s,
                         amountCents |-> cents.c, createdAt |-> now]>>]

\* POST /api/expenses
AddExpense(h, b) ==
    LET out == AddOutcome(h, b)
    IN  /\ out.err \/ (nextId <= MaxExpenses /\ StoreSize < MaxDocs)
        /\ lastReq' = Req("addExpense", h, b, BadId)
        /\ resp' = out.resp
        /\ expenses' = expenses \o out.doc
        /\ nextId' = IF out.err THEN nextId ELSE nextId + 1
        /\ now' = IF out.err THEN now ELSE now + 1
        /\ UNCHANGED <<settings, pending>>

\* DELETE /api/expenses/<expense_id>
DeleteExpense(h, id) ==
    LET after == DeleteOne(expenses, id.oid, h)
    IN  /\ lastReq' = Req("deleteExpense", h, EmptyBody, id)
        /\ IF MissingUser(h) THEN resp' = ErrMissingUser /\ UNCHANGED expenses
           ELSE IF MalformedId(id) THEN resp' = ErrInvalidId /\ UNCHANGED expenses
           ELSE /\ expenses' = after
                /\ resp' = IF Len(after) = Len(expenses) THEN ErrNotFound
                           ELSE Resp(200, "deleted", <<id>>)
        /\ UNCHANGED <<settings, nextId, now, pending>>

\* GET /api/expenses/summary
ExpensesSummary(h) ==
    /\ lastReq' = Req("summarize", h, EmptyBody, BadId)
    /\ resp' = IF MissingUser(h) THEN ErrMissingUser
               ELSE Resp(200, "summary", SummaryView(expenses, h))
    /\ UNCHANGED <<expenses, settings, nextId, now, pending>>

\* save_settings up to the update_one call: the error response, or the $set.
\* The $set also stamps updatedAt; no handler reads that field and it is left
\* out of the settings documents.
SettingsOutcome(h, b) ==
    LET paycheck == PyFloat(DataGetZero(b.paycheck))
        savings_percent == PyFloat(DataGetZero(b.savingsPercent))
        cents == ToCents(paycheck.f)
        none == [err |-> TRUE, resp |-> Fault, set |-> <<>>]
    IN  IF MissingUser(h) THEN [none EXCEPT !.resp = ErrMissingUser]
        ELSE IF ~paycheck.ok \/ ~savings_percent.ok
             THEN [none EXCEPT !.resp = ErrInvalidSettings]
        ELSE IF ~cents.ok THEN none
        ELSE [err |-> FALSE,
              resp |-> Resp(200, "ok", <<>>),
              set |-> <<[userId |-> h, paycheckCents |-> cents.c,
                         savingsPercent |-> savings_percent.f]>>]

\* POST /api/settings, up to and including the query phase of the upsert.
\* update_one(..., upsert=True) updates a matching document atomically.  When
\* no document matches it goes on to insert one, and the collection has no
\* unique index on userId, so a concurrent upsert of the same user may run
\* its own query phase before this insert happens.
SaveSettings(h, b) ==
    LET out == SettingsOutcome(h, b)
        req == Req("saveSettings", h, b, BadId)
    IN  /\ lastReq' = req
        /\ IF out.err
           THEN resp' = out.resp /\ UNCHANGED <<settings, pending>>
           ELSE IF HasSettings(settings, h)
           THEN /\ settings' = UpdateOne(settings, h, out.set[1])
                /\ resp' = out.resp
                /\ UNCHANGED pending
           ELSE /\ BagCardinality(pending) < MaxInFlight
                /\ StoreSize < MaxDocs
                /\ pending' = pending (+) SetToBag({[req |-> req, doc |-> out.set[1]]})
                /\ resp' = NoResp
                /\ UNCHANGED settings
        /\ UNCHANGED <<expenses, nextId, now>>

\* POST /api/settings, the insert phase of an upsert that matched nothing,
\* and the response of that request.
UpsertInsert(p) ==
    /\ BagIn(p, pending)
    /\ settings' = Append(settings, p.doc)
    /\ pending' = pending (-) SetToBag({p})
    /\ lastReq' = p.req
    /\ resp' = Resp(200, "ok", <<>>)
    /\ UNCHANGED <<expenses, nextId, now>>

\* GET /api/settings
GetSettings(h) ==
    /\ lastReq' = Req("getSettings", h, EmptyBody, BadId)
    /\ resp' = IF MissingUser(h) THEN ErrMissingUser
               ELSE Resp(200, "settings", <<SettingsView(settings, h)>>)
    /\ UNCHANGED <<expenses, settings, nextId, now, pending>>

\* ------------------------------------------------------------------------
\* Specifications
\* ------------------------------------------------------------------------
ExpensesNext ==
    \/ \E h \in Headers : GetExpenses(h)
    \/ \E r \in AddRequests : AddExpense(r[1], r[2])
    \/ \E r \in DeleteRequests : DeleteExpense(r[1], r[2])
    \/ \E h \in Headers : ExpensesSummary(h)

SettingsNext ==
    \/ \E r \in SaveRequests : SaveSettings(r[1], r[2])
    \/ \E p \in BagToSet(pending) : UpsertInsert(p)
    \/ \E h \in Headers : GetSettings(h)

Next ==
    \/ \E h \in Headers : GetExpenses(h)
    \/ \E r \in CoreAddRequests : AddExpense(r[1], r[2])
    \/ \E r \in DeleteRequests : DeleteExpense(r[1], r[2])
    \/ \E h \in Headers : ExpensesSummary(h)
    \/ \E r \in CoreSaveRequests : SaveSettings(r[1], r[2])
    \/ \E p \in BagToSet(pending) : UpsertInsert(p)
    \/ \E h \in Headers : GetSettings(h)

SpecExpenses == Init /\ [][ExpensesNext]_vars
SpecSettings == Init /\ [][SettingsNext]_vars
Spec == Init /\ [][Next]_vars

\* ------------------------------------------------------------------------
\* Properties
\* ------------------------------------------------------------------------
Range(f) == {f[i] : i \in DOMAIN f}
Ids(col) == {col[i].id : i \in DOMAIN col}
IsAdded == lastReq.op = "addExpense" /\ resp.status = 201
\* The document the last addExpense stored.
AddedDoc == CHOOSE d \in Range(expenses) : OidStr(d.id) = resp.val[1]

\* C1: a request of any of the six operations whose X-User-Id header is
\* absent or empty is answered 401 "Missing X-User-Id header", whatever its
\* body or path id, and leaves both collections unchanged.
C1_MissingIdentityRejected ==
    [][(lastReq'.user = NoHeader \/ lastReq'.user = "")
         => /\ resp' = ErrMissingUser
            /\ expenses' = expenses
            /\ settings' = settings
            /\ pending' = pending]_vars

C1_Witness ==
    /\ lastReq.op = "addExpense"
    /\ lastReq.user = ""
    /\ lastReq.body = BaseExpense
    /\ resp = ErrMissingUser
    /\ expenses # <<>>
    /\ settings # <<>>

\* description non-empty after trim, amount > 0 with at most two decimals
ValidAddInput(b) ==
    /\ b.description.k = "str"
    /\ Strip(b.description.s) # <<>>
    /\ PyFloat(b.amount).ok
    /\ PyFloat(b.amount).f.k = "num"
    /\ PyFloat(b.amount).f.n > 0
    /\ PyFloat(b.amount).f.n % 10 = 0

\* The records of user u's listing that carry the id just returned.
ListedWithId(u) ==
    SelectSeq(ListView(expenses, u), LAMBDA r : r.id = resp.val[1])

\* C2 as stated: after an addExpense with valid input that returned 201 with
\* id i, the listing of that user holds exactly one record with id i, whose
\* description, category (when one is submitted that is not blank) and amount
\* equal the submitted ones.
C2_ListedEqualsSubmitted ==
    (IsAdded /\ ValidAddInput(lastReq.body)) =>
        LET recs == ListedWithId(lastReq.user)
            b == lastReq.body
        IN  /\ Len(recs) = 1
            /\ Str(recs[1].description) = b.description
            /\ (b.category.k = "str" /\ Strip(b.category.s) # <<>>
                  => Str(recs[1].category) = b.category)
            /\ recs[1].amount = PyFloat(b.amount).f.n

\* C2 amended: after an addExpense with valid input that returned 201 with
\* id i, the listing of that user holds exactly one record with id i; its
\* description is the submitted one trimmed of surrounding whitespace, its
\* category is the submitted one trimmed ("Other" when the submitted category
\* is absent, null or empty), and its amount equals the submitted amount to
\* the cent.
C2_ListedEqualsTrimmedSubmitted ==
    (IsAdded /\ ValidAddInput(lastReq.body)) =>
        LET recs == ListedWithId(lastReq.user)
            b == lastReq.body
        IN  /\ Len(recs) = 1
            /\ recs[1].description = Strip(b.description.s)
            /\ recs[1].category =
                  IF b.category.k = "str" /\ b.category.s # <<>>
                  THEN Strip(b.category.s) ELSE <<"Other">>
            /\ recs[1].amount = PyFloat(b.amount).f.n

C2_Witness ==
    /\ IsAdded
    /\ lastReq.body.description = Str(<<" ", "a", " ">>)
    /\ Len(MatchUser(expenses, lastReq.user)) = 2
    /\ Len(ListedWithId(lastReq.user)) = 1

\* C3: deleteExpense(u, id) with a well-formed id that does not exist or
\* belongs to another user returns 404 and leaves the expenses collection
\* unchanged; with an id owned by u it returns 200 and removes exactly that
\* record; an id that has left the collection never comes back.
C3_DeleteOwnedOnly ==
    [][/\ (lastReq'.op = "deleteExpense" /\ lastReq'.user \in Users /\ lastReq'.id.wf)
          => LET u == lastReq'.user
                 oid == lastReq'.id.oid
                 owned == \E i \in DOMAIN expenses :
                             expenses[i].id = oid /\ expenses[i].userId = u
             IN  IF owned
                 THEN /\ resp' = Resp(200, "deleted", <<lastReq'.id>>)
                      /\ expenses' = SelectSeq(expenses, LAMBDA d : d.id # oid)
                      /\ Len(expenses') = Len(expenses) - 1
                      /\ \A v \in Users : \A j \in DOMAIN ListView(expenses', v) :
                            ListView(expenses', v)[j].id # lastReq'.id
                 ELSE /\ resp' = ErrNotFound
                      /\ expenses' = expenses
       /\ \A n \in 1..(nextId - 1) : n \notin Ids(expenses) => n \notin Ids(expenses')
      ]_vars

C3_Witness ==
    /\ lastReq.op = "deleteExpense"
    /\ lastReq.user \in Users
    /\ resp = ErrNotFound
    /\ \E d \in Range(expenses) :
          d.id = lastReq.id.oid /\ d.userId \in Users \ {lastReq.user}

\* Sum of amountCents over the documents of col at the indices in S.
RECURSIVE SumCents(_, _)
SumCents(col, S) ==
    IF S = {} THEN 0
    ELSE LET i == CHOOSE j \in S : TRUE
         IN  col[i].amountCents + SumCents(col, S \ {i})

Permute(col, f) == [i \in DOMAIN col |-> col[f[i]]]

\* C4: summarize(u) has exactly one entry per category among u's stored
\* expenses, each total is the sum of amountCents of u's expenses of that
\* category divided by 100, other users' expenses contribute nothing, the
\* entries are in non-increasing order of total, and the set of entries is
\* the same for every insertion order of the stored expenses.
C4_SummaryTotals ==
    \A u \in Users :
        LET sv == SummaryView(expenses, u)
            own == {i \in DOMAIN expenses : expenses[i].userId = u}
            cats == {expenses[i].category : i \in own}
        IN  /\ {sv[j].category : j \in DOMAIN sv} = cats
            /\ Len(sv) = Cardinality(cats)
            /\ \A j \in DOMAIN sv :
                  sv[j].total =
                     10 * SumCents(expenses,
                               {i \in own : expenses[i].category = sv[j].category})
            /\ \A j \in 1..(Len(sv) - 1) : sv[j].total >= sv[j + 1].total
            /\ \A f \in Permutations(DOMAIN expenses) :
                  Range(SummaryView(Permute(expenses, f), u)) = Range(sv)

C4_Witness ==
    \E u \in Users :
        /\ Len(MatchUser(expenses, u)) = 2
        /\ Len(SummaryView(expenses, u)) = 2
        /\ SummaryView(expenses, u)[1].total > SummaryView(expenses, u)[2].total
        /\ MatchUser(expenses, u)[1].amountCents < MatchUser(expenses, u)[2].amountCents

\* C5: the settings collection holds at most one record per userId in every
\* reachable state, also when upserts of concurrent requests interleave.
C5_OneSettingsPerUser ==
    \A u \in Users : Len(MatchUser(settings, u)) <= 1

\* The wire value a settings field is parsed to.
Submitted(v) == PyFloat(DataGetZero(v)).f

\* C6: getSettings(u) returns the paycheck (to the cent) and savingsPercent
\* of the most recent successful saveSettings of u, zeros before the first
\* one, and no other step changes what it returns.
C6_GetReturnsLastSave ==
    [][\A u \in Users :
          LET before == SettingsView(settings, u)
              after == SettingsView(settings', u)
          IN  IF lastReq'.op = "saveSettings" /\ lastReq'.user = u /\ resp'.status = 200
              THEN /\ after.paycheck - Submitted(lastReq'.body.paycheck).n \in -5..5
                   /\ after.savingsPercent = Submitted(lastReq'.body.savingsPercent)
              ELSE after = before
      ]_vars

\* C7: every stored expense has amountCents > 0.
C7_PositiveCents ==
    \A i \in DOMAIN expenses : expenses[i].amountCents > 0

\* absent, null, empty or whitespace-only
Blank(v) == v.k \in {"missing", "null"} \/ (v.k = "str" /\ Strip(v.s) = <<>>)

\* C8: the category stored by a successful addExpense is "Other" when the
\* submitted one is absent or blank and the trimmed submitted one otherwise;
\* no stored expense has an empty category.
C8_CategoryDefault ==
    /\ IsAdded =>
          AddedDoc.category =
             IF Blank(lastReq.body.category) THEN <<"Other">>
             ELSE Strip(lastReq.body.category.s)
    /\ \A i \in DOMAIN expenses : expenses[i].category # <<>>

\* C9: every addExpense or saveSettings request that carries an identity
\* ends in 201/200 or in a 400 with a JSON error body, never in an unhandled
\* fault.
C9_NoUnhandledFault ==
    (lastReq.op \in {"addExpense", "saveSettings"} /\ lastReq.user \in Users)
        => resp.status # 500

\* C10: a step taken for a request of one user changes no record owned by
\* another user and nothing listExpenses, summarize or getSettings return to
\* that other user.
C10_UserIsolation ==
    [][\A b \in Users :
          lastReq'.user # b =>
             /\ SelectSeq(expenses', LAMBDA d : d.userId = b)
                   = SelectSeq(expenses, LAMBDA d : d.userId = b)
             /\ SelectSeq(settings', LAMBDA d : d.userId = b)
                   = SelectSeq(settings, LAMBDA d : d.userId = b)
             /\ ListView(expenses', b) = ListView(expenses, b)
             /\ SummaryView(expenses', b) = SummaryView(expenses, b)
             /\ SettingsView(settings', b) = SettingsView(settings, b)
      ]_vars

C10_Witness ==
    /\ lastReq.op = "saveSettings"
    /\ lastReq.user \in Users
    /\ resp.status = 200
    /\ \E b \in Users \ {lastReq.user} :
          /\ settings # <<>> /\ settings[1].userId = b
          /\ HasSettings(settings, lastReq.user)
          /\ MatchUser(expenses, b) # <<>>

====
